---------------------------- MODULE Spec2Model ----------------------------
(***************************************************************************)
(* Model of bitso_dashboard.py: one run of the Streamlit script, top to    *)
(* bottom.  The script is straight-line code over module globals, so the   *)
(* state is the trade file it reads, the sidebar widgets, the script's     *)
(* namespace (env), the DataFrame (data), what has been displayed, and the *)
(* position in the script (pc).  An uncaught exception ends the run.       *)
(*                                                                         *)
(* Numbers are exact rationals [k |-> "fin", n, d] with d > 0, extended    *)
(* with the IEEE values NaN, +inf and -inf the script can produce.         *)
(* Rounding of binary floating point is not modelled.                      *)
(***************************************************************************)
EXTENDS Integers, Sequences, FiniteSets, TLC

VARIABLES file, widgets, pc, data, rolling_vol, env, shown, raised

vars == <<file, widgets, pc, data, rolling_vol, env, shown, raised>>

---------------------------------------------------------------------------
(* Bounds of the model. *)

\* longest run of arbitrary recent rows at the end of the trade file
MaxHead == 2
\* longest run of identical older fills at the start of the trade file
MaxTail == 9

---------------------------------------------------------------------------
(* Floating point values. *)

Abs(x) == IF x < 0 THEN -x ELSE x

RECURSIVE GCD(_, _)
GCD(a, b) == IF b = 0 THEN a ELSE GCD(b, a % b)

Fin(n, d) ==
    LET g == GCD(Abs(n), d)
    IN  [k |-> "fin", n |-> n \div g, d |-> d \div g]

Num(n) == Fin(n, 1)
NaN    == [k |-> "nan", n |-> 0, d |-> 1]
PosInf == [k |-> "inf", n |-> 1, d |-> 1]
NegInf == [k |-> "inf", n |-> -1, d |-> 1]
\* a CSV cell holding text that is no number and no date
Text   == [k |-> "str", n |-> 0, d |-> 1]
\* a global name of the script that no statement has assigned yet
Unbound == [k |-> "unbound", n |-> 0, d |-> 1]

IsNaN(x) == x.k = "nan"
IsFin(x) == x.k = "fin"

\* x < y on floats: every comparison with NaN is false
Lt(x, y) ==
    IF IsNaN(x) \/ IsNaN(y) THEN FALSE
    ELSE IF x.k = "inf" /\ y.k = "inf" THEN x.n < y.n
    ELSE IF x.k = "inf" THEN x.n < 0
    ELSE IF y.k = "inf" THEN y.n > 0
    ELSE x.n * y.d < y.n * x.d

Gt(x, y) == Lt(y, x)
\* x >= y on floats
Ge(x, y) == ~IsNaN(x) /\ ~IsNaN(y) /\ ~Lt(x, y)
Le(x, y) == Ge(y, x)

\* +, - and * on finite values and NaN (no infinity reaches an addition or a
\* product: the cells of the file are finite)
LCM(a, b) == (a \div GCD(a, b)) * b

Add(x, y) ==
    IF IsFin(x) /\ IsFin(y)
    THEN LET l == LCM(x.d, y.d)
         IN  Fin(x.n * (l \div x.d) + y.n * (l \div y.d), l)
    ELSE NaN

Sub(x, y) ==
    IF IsFin(x) /\ IsFin(y)
    THEN LET l == LCM(x.d, y.d)
         IN  Fin(x.n * (l \div x.d) - y.n * (l \div y.d), l)
    ELSE NaN

Mul(x, y) ==
    IF IsFin(x) /\ IsFin(y) THEN Fin(x.n * y.n, x.d * y.d) ELSE NaN

\* numpy scalar / Python float: a zero divisor gives nan or an infinity (with
\* a RuntimeWarning), never ZeroDivisionError
Div(x, y) ==
    IF ~(IsFin(x) /\ IsFin(y)) THEN NaN
    ELSE IF y.n = 0
         THEN IF x.n = 0 THEN NaN ELSE IF x.n > 0 THEN PosInf ELSE NegInf
    ELSE IF y.n > 0 THEN Fin(x.n * y.d, x.d * y.n)
    ELSE Fin(-(x.n * y.d), x.d * (-y.n))

\* Python's min(a, b): b only when b < a, so min(nan, 1.0) is nan
PyMin(a, b) == IF Lt(b, a) THEN b ELSE a

RECURSIVE SumSeq(_)
\* Series.sum(): 0 for the empty series
SumSeq(s) == IF s = <<>> THEN Num(0) ELSE Add(s[1], SumSeq(Tail(s)))

\* Series.mean(): nan for the empty series
Mean(s) == IF s = <<>> THEN NaN ELSE Div(SumSeq(s), Num(Len(s)))

Column(df, c) == [i \in 1..Len(df) |-> df[i][c]]

---------------------------------------------------------------------------
(* The trade file and the sidebar: the inputs of one run. *)

Row(ts, side, price, amount, oid) ==
    [timestamp |-> ts, side |-> side, price |-> price, amount |-> amount,
     order_id |-> oid]

\* well-formed fills; the two SELL prices differ by 0.01, the BUY price by 1
SellLo == Row(Num(1), "sell", Num(2), Num(3), "id")
SellHi == Row(Num(1), "sell", Fin(201, 100), Num(1), "id")
Buy    == Row(Num(1), "buy", Num(3), Num(2), "id")
\* rows a file can hold that are not fills
NegAmount  == Row(Num(1), "sell", Num(3), Num(-4), "id")
NegPrice   == Row(Num(1), "buy", Num(-2), Num(1), "id")
OtherSide  == Row(Num(1), "hold", Num(2), Num(1), "id")
BadPrice   == Row(Num(1), "sell", Text, Num(1), "id")
NoAmount   == Row(Num(1), "buy", Num(2), NaN, "id")
NoSide     == Row(Num(1), "", Num(2), Num(1), "id")
NoTime     == Row(NaN, "sell", Num(2), Num(1), "id")
BadTime    == Row(Text, "sell", Num(2), Num(1), "id")

Fills == {SellLo, SellHi, Buy}
RawRows == Fills \cup {NegAmount, NegPrice, OtherSide, BadPrice, NoAmount,
                       NoSide, NoTime, BadTime}
\* the older fills a file starts with
OldFills == {SellLo, Row(Num(1), "buy", Num(2), Num(1), "id")}

SeqsUpTo(S, n) == UNION {[1..m -> S] : m \in 0..n}

Repeat(x, r) == [i \in 1..r |-> x]

\* how many older fills: none, or within two of MaxTail
TailLens == {0} \cup {r \in 1..MaxTail : r + 2 >= MaxTail}

\* the files tried: r identical older fills, then up to MaxHead recent rows
Files(rows) ==
    {[exists |-> FALSE, rows |-> <<>>]} \cup
    {[exists |-> TRUE, rows |-> Repeat(t, r) \o h] :
        t \in OldFills, r \in TailLens, h \in SeqsUpTo(rows, MaxHead)}

Widgets(limits, targets, bases) ==
    [mxn_exposure_limit : limits, usd_exposure_limit : limits,
     target_sell_mxn : targets, target_sell_usd : targets,
     cost_basis : bases, block_size : {Num(500000)}]

Names == {"mxn_exposure_limit", "usd_exposure_limit", "target_sell_mxn",
          "target_sell_usd", "cost_basis", "block_size", "sell_mxn",
          "buy_usd", "sell_progress", "buy_progress", "latest_vol",
          "buy_avg", "sell_avg", "sell_qty", "sell_price_deviation",
          "buy_price_deviation", "cost_basis_pnl", "cost_basis_buy_pnl",
          "est_pnl"}

NoException == [type |-> "none", line |-> 0]

Start ==
    /\ pc = "load"
    /\ data = <<>>
    /\ rolling_vol = <<>>
    /\ env = [x \in Names |-> Unbound]
    /\ shown = [alerts |-> {}, suggestion |-> "none", size |-> Unbound]
    /\ raised = NoException

\* every kind of row, two configurations
Init ==
    /\ file \in Files(RawRows)
    /\ widgets \in Widgets({Num(8)}, {Num(0), Num(8)}, {Num(2)})
    /\ Start

\* fills and a negative amount, every combination of limits, targets and
\* cost basis
InitCfg ==
    /\ file \in Files(Fills \cup {NegAmount})
    /\ widgets \in Widgets({Num(0), Num(4)}, {Num(0), Num(2)},
                           {Num(0), Num(2), Num(3)})
    /\ Start

---------------------------------------------------------------------------
(* Lines 8-20: load and normalise. *)

\* load_data(): the file's rows, or an empty frame when there is no file
load_data == IF file.exists THEN file.rows ELSE <<>>

\* pd.to_datetime (errors='raise'): a cell that is no date raises
ToDatetimeRaises(df) == \E i \in 1..Len(df) : df[i].timestamp.k = "str"

\* pd.to_numeric(errors='coerce'): text becomes NaN, numbers stay
to_numeric(x) == IF x.k = "str" THEN NaN ELSE x

Coerce(df) ==
    [i \in 1..Len(df) |->
        [df[i] EXCEPT !.amount = to_numeric(df[i].amount),
                      !.price = to_numeric(df[i].price)]]

\* a row with a missing value in any of its five columns
HasNA(r) ==
    \/ IsNaN(r.timestamp)
    \/ r.side = ""
    \/ IsNaN(r.price)
    \/ IsNaN(r.amount)
    \/ r.order_id = ""

Keep(r) == ~HasNA(r)

\* DataFrame.dropna()
dropna(df) == SelectSeq(df, Keep)

Load ==
    /\ pc = "load"
    /\ data' = load_data
    /\ pc' = "normalize"
    /\ UNCHANGED <<file, widgets, rolling_vol, env, shown, raised>>

Normalize ==
    /\ pc = "normalize"
    /\ IF ToDatetimeRaises(data)
       THEN /\ raised' = [type |-> "ValueError", line |-> 17]
            /\ pc' = "raised"
            /\ data' = data
       ELSE /\ data' = dropna(Coerce(data))
            /\ pc' = "controls"
            /\ raised' = raised
    /\ UNCHANGED <<file, widgets, rolling_vol, env, shown>>

\* lines 27-32: the script reads its thresholds from the sidebar
Controls ==
    /\ pc = "controls"
    /\ env' = [x \in Names |-> IF x \in DOMAIN widgets THEN widgets[x] ELSE env[x]]
    /\ pc' = "exposure"
    /\ UNCHANGED <<file, widgets, data, rolling_vol, shown, raised>>

---------------------------------------------------------------------------
(* Lines 34-59: exposure, progress and alerts. *)

IsSell(r) == r.side = "sell"
IsBuy(r)  == r.side = "buy"

Notional(df) == [i \in 1..Len(df) |-> Mul(df[i].amount, df[i].price)]

\* line 35
SellMxn(df) == SumSeq(Column(SelectSeq(df, IsSell), "amount"))
\* line 36
BuyUsd(df) == SumSeq(Notional(SelectSeq(df, IsBuy)))

\* lines 40-41: min(total / target, 1.0)
Progress(total, target) == PyMin(Div(total, target), Num(1))

\* the four checks chained with elif: the first one that holds hides the rest
Alerts_Chained(e) ==
    IF Ge(e.sell_mxn, e.mxn_exposure_limit) THEN {"mxn_exposure_limit"}
    ELSE IF Ge(e.buy_usd, e.usd_exposure_limit) THEN {"usd_exposure_limit"}
    ELSE IF Ge(e.sell_mxn, e.target_sell_mxn) THEN {"target_sell_mxn"}
    ELSE IF Ge(e.buy_usd, e.target_sell_usd) THEN {"target_sell_usd"}
    ELSE {}

\* lines 52-59: four separate if statements, one banner each
Alerts(e) ==
    (IF Ge(e.sell_mxn, e.mxn_exposure_limit) THEN {"mxn_exposure_limit"} ELSE {})
    \cup
    (IF Ge(e.buy_usd, e.usd_exposure_limit) THEN {"usd_exposure_limit"} ELSE {})
    \cup
    (IF Ge(e.sell_mxn, e.target_sell_mxn) THEN {"target_sell_mxn"} ELSE {})
    \cup
    (IF Ge(e.buy_usd, e.target_sell_usd) THEN {"target_sell_usd"} ELSE {})

Exposure ==
    /\ pc = "exposure"
    /\ env' = [env EXCEPT !.sell_mxn = SellMxn(data), !.buy_usd = BuyUsd(data)]
    /\ pc' = "progress"
    /\ UNCHANGED <<file, widgets, data, rolling_vol, shown, raised>>

ProgressBars ==
    /\ pc = "progress"
    /\ env' = [env EXCEPT
                 !.sell_progress = Progress(env.sell_mxn, env.target_sell_mxn),
                 !.buy_progress = Progress(env.buy_usd, env.target_sell_usd)]
    /\ pc' = "alerts"
    /\ UNCHANGED <<file, widgets, data, rolling_vol, shown, raised>>

ShowAlerts ==
    /\ pc = "alerts"
    /\ shown' = [shown EXCEPT !.alerts = Alerts(env)]
    /\ pc' = "volatility"
    /\ UNCHANGED <<file, widgets, data, rolling_vol, env, raised>>

---------------------------------------------------------------------------
(* Lines 70-83: volatility and the suggestion.                             *)
(* A standard deviation is a square root, so a volatility is held as its   *)
(* square (the sample variance); squaring keeps the order of non-negative  *)
(* values, and the threshold 0.04 is compared squared.                     *)

\* rolling(window=10)
W == 10

\* line 78
VolThreshold == Fin(4, 100)

Squares(s) == [i \in 1..Len(s) |-> Mul(s[i], s[i])]

\* sample variance (ddof = 1) of a window of n >= 2 prices
Variance(s) ==
    LET n == Num(Len(s))
        total == SumSeq(s)
    IN  Div(Sub(Mul(n, SumSeq(Squares(s))), Mul(total, total)),
            Mul(n, Num(Len(s) - 1)))

\* rolling(window=W).std() at row i: nan until W rows are in the window
RollingAt(prices, i) ==
    IF i < W THEN NaN ELSE Variance(SubSeq(prices, i - W + 1, i))

Rolling(prices) == [i \in 1..Len(prices) |-> RollingAt(prices, i)]

AllNaN(s) == \A i \in 1..Len(s) : IsNaN(s[i])

\* .iloc[-1] without the isna().all() test
LatestVol_Unguarded(rv) == IF rv # <<>> THEN rv[Len(rv)] ELSE Num(0)

\* line 73: .iloc[-1] unless every rolling value is nan
LatestVol(rv) == IF ~AllNaN(rv) THEN rv[Len(rv)] ELSE Num(0)

\* lines 78-83, with the names as the script has bound them so far
Suggestion(e) ==
    IF Gt(e.latest_vol, Mul(VolThreshold, VolThreshold)) THEN "HOLD"
    ELSE IF e.sell_price_deviation = Unbound THEN "NameError"
    ELSE IF Lt(e.sell_price_deviation, Num(0)) THEN "WAIT"
    ELSE "SELL"

Volatility ==
    /\ pc = "volatility"
    /\ rolling_vol' = Rolling(Column(data, "price"))
    /\ env' = [env EXCEPT !.latest_vol = LatestVol(rolling_vol')]
    /\ pc' = "suggest"
    /\ UNCHANGED <<file, widgets, data, shown, raised>>

Suggest ==
    /\ pc = "suggest"
    /\ IF Suggestion(env) = "NameError"
       THEN /\ raised' = [type |-> "NameError", line |-> 80]
            /\ pc' = "raised"
            /\ shown' = shown
       ELSE /\ shown' = [shown EXCEPT
                           !.suggestion = Suggestion(env),
                           !.size = IF Suggestion(env) = "SELL"
                                    THEN env.block_size ELSE Unbound]
            /\ pc' = "cost_basis"
            /\ raised' = raised
    /\ UNCHANGED <<file, widgets, data, rolling_vol, env>>

---------------------------------------------------------------------------
(* Lines 85-119: cost basis, profit and loss, and the first chart. *)

\* the deviation without its np.isnan test
BuyDeviation_Unguarded(avg, basis) == Sub(basis, avg)

\* lines 92 and 94: deviation of an average from the cost basis, 0.0 for nan
SellDeviation(avg, basis) == IF ~IsNaN(avg) THEN Sub(avg, basis) ELSE Num(0)
BuyDeviation(avg, basis) == IF ~IsNaN(avg) THEN Sub(basis, avg) ELSE Num(0)

\* line 98
SellPnl(avg, basis, qty) ==
    IF ~IsNaN(avg) THEN Mul(Sub(avg, basis), qty) ELSE Num(0)
\* line 99
BuyPnl(avg, basis, qty) ==
    IF ~IsNaN(avg) THEN Mul(Sub(basis, avg), qty) ELSE Num(0)
\* line 107
EstPnl(savg, bavg, qty) ==
    IF ~IsNaN(savg) /\ ~IsNaN(bavg) THEN Mul(Sub(savg, bavg), qty) ELSE Num(0)

CostBasis ==
    /\ pc = "cost_basis"
    /\ LET buy_avg == Mean(Column(SelectSeq(data, IsBuy), "price"))
           sell_avg == Mean(Column(SelectSeq(data, IsSell), "price"))
       IN  env' = [env EXCEPT
                     !.buy_avg = buy_avg,
                     !.sell_avg = sell_avg,
                     !.sell_qty = SellMxn(data),
                     !.sell_price_deviation = SellDeviation(sell_avg, env.cost_basis),
                     !.buy_price_deviation = BuyDeviation(buy_avg, env.cost_basis)]
    /\ pc' = "pnl"
    /\ UNCHANGED <<file, widgets, data, rolling_vol, shown, raised>>

ProfitLoss ==
    /\ pc = "pnl"
    /\ env' = [env EXCEPT
                 !.cost_basis_pnl =
                     SellPnl(env.sell_avg, env.cost_basis, env.sell_qty),
                 !.cost_basis_buy_pnl =
                     BuyPnl(env.buy_avg, env.cost_basis,
                            SumSeq(Column(SelectSeq(data, IsBuy), "amount")))]
    /\ pc' = "est_pnl"
    /\ UNCHANGED <<file, widgets, data, rolling_vol, shown, raised>>

CumulativePnl ==
    /\ pc = "est_pnl"
    /\ env' = [env EXCEPT
                 !.est_pnl = EstPnl(env.sell_avg, env.buy_avg, env.sell_qty)]
    /\ pc' = "charts"
    /\ UNCHANGED <<file, widgets, data, rolling_vol, shown, raised>>

\* line 119 reads volume_chart, which no line of the script assigns
Charts ==
    /\ pc = "charts"
    /\ raised' = [type |-> "NameError", line |-> 119]
    /\ pc' = "raised"
    /\ UNCHANGED <<file, widgets, data, rolling_vol, env, shown>>

Next ==
    \/ Load
    \/ Normalize
    \/ Controls
    \/ Exposure
    \/ ProgressBars
    \/ ShowAlerts
    \/ Volatility
    \/ Suggest
    \/ CostBasis
    \/ ProfitLoss
    \/ CumulativePnl
    \/ Charts

Spec == Init /\ [][Next]_vars

SpecCfg == InitCfg /\ [][Next]_vars

---------------------------------------------------------------------------
(* Properties. *)

Zero == Num(0)
One  == Num(1)

Bound(x) == env[x] # Unbound

\* lines 17-20 have run and produced a frame
Normalized == pc \notin {"load", "normalize"} /\ raised.line # 17

\* lines 52-59 have run
AlertsShown ==
    Normalized /\ pc \notin {"controls", "exposure", "progress", "alerts"}

\* lines 78-83 have run, to a suggestion or to an exception
Suggested ==
    \/ pc \in {"cost_basis", "pnl", "est_pnl", "charts"}
    \/ pc = "raised" /\ raised.line >= 80

PositiveTargets ==
    Gt(widgets.target_sell_mxn, Zero) /\ Gt(widgets.target_sell_usd, Zero)

Sells == SelectSeq(data, IsSell)
Buys  == SelectSeq(data, IsBuy)

\* a trade as the data model defines it
ValidTrade(r) ==
    /\ IsFin(r.timestamp)
    /\ r.side \in {"buy", "sell"}
    /\ IsFin(r.price) /\ r.price.n >= 0
    /\ IsFin(r.amount) /\ r.amount.n >= 0
    /\ r.order_id # ""

Rows(df) == {df[i] : i \in 1..Len(df)}

\* C1: once the suggestion engine has run, what it showed is the first rule
\* that matches: HOLD when latest_volatility > 0.04, otherwise WAIT when the
\* sell deviation of the log is negative, otherwise SELL block_size.
C1_FirstMatchingRule ==
    Suggested =>
        LET dev == SellDeviation(Mean(Column(Sells, "price")), widgets.cost_basis)
        IN  IF Gt(env.latest_vol, Mul(VolThreshold, VolThreshold))
            THEN shown.suggestion = "HOLD"
            ELSE IF Lt(dev, Zero)
            THEN shown.suggestion = "WAIT"
            ELSE shown.suggestion = "SELL" /\ shown.size = widgets.block_size

\* C2: when the suggestion engine is about to evaluate its rules, the
\* progress ratios and sell_deviation of this run have been computed.
C2_CalculatorBeforeSuggestion ==
    pc = "suggest" =>
        /\ Bound("sell_progress") /\ Bound("buy_progress")
        /\ Bound("sell_price_deviation")

\* C3: with strictly positive targets and a file that is absent or holds
\* only well-formed trades (of any number), the run raises nothing.
C3_CycleCompletes ==
    (PositiveTargets /\ \A r \in Rows(file.rows) : ValidTrade(r))
        => raised = NoException

\* C4: every row of the normalised log is a valid trade, and every raw row
\* that is not one is absent from the log.
C4_NormalizedRowsValid ==
    Normalized =>
        /\ \A r \in Rows(data) : ValidTrade(r)
        /\ \A r \in Rows(Coerce(file.rows)) : ~ValidTrade(r) => r \notin Rows(data)

\* C5: with a target that is zero, no progress ratio is computed and nothing
\* is shown: the run is rejected first.
C5_ZeroTargetRejected ==
    ~PositiveTargets =>
        /\ ~Bound("sell_progress") /\ ~Bound("buy_progress")
        /\ shown.alerts = {} /\ shown.suggestion = "none"

\* C6: for strictly positive targets both progress ratios lie in [0, 1] and
\* no smaller exposure total would have given a larger ratio.
C6_ProgressInUnitInterval ==
    (PositiveTargets /\ Bound("sell_progress")) =>
        /\ Ge(env.sell_progress, Zero) /\ Le(env.sell_progress, One)
        /\ Ge(env.buy_progress, Zero) /\ Le(env.buy_progress, One)
        /\ \A x \in 0..4 :
              Le(Num(x), env.sell_mxn) =>
                  Le(Progress(Num(x), env.target_sell_mxn), env.sell_progress)

\* C7: a side with no trades has deviation 0.0 and P&L 0.0 whatever the cost
\* basis, the net estimate is 0.0 unless both sides have trades, and none of
\* the five values is NaN.
C7_EmptySideIsZero ==
    /\ Bound("sell_price_deviation") =>
          /\ IsFin(env.sell_price_deviation) /\ IsFin(env.buy_price_deviation)
          /\ Sells = <<>> => env.sell_price_deviation = Zero
          /\ Buys = <<>> => env.buy_price_deviation = Zero
    /\ Bound("cost_basis_pnl") =>
          /\ IsFin(env.cost_basis_pnl) /\ IsFin(env.cost_basis_buy_pnl)
          /\ Sells = <<>> => env.cost_basis_pnl = Zero
          /\ Buys = <<>> => env.cost_basis_buy_pnl = Zero
    /\ Bound("est_pnl") =>
          /\ IsFin(env.est_pnl)
          /\ (Sells = <<>> \/ Buys = <<>>) => env.est_pnl = Zero

\* a run that computed all five values for a log of SELL trades only, priced
\* away from the cost basis
C7_Witness ==
    /\ pc = "charts"
    /\ Buys = <<>> /\ Sells # <<>>
    /\ env.sell_price_deviation # Zero
    /\ env.buy_price_deviation = Zero /\ env.est_pnl = Zero

\* C8: with fewer than W trades every rolling value is undefined and
\* latest_vol is the fallback 0.0; with W or more it is the defined rolling
\* value of the window that ends at the most recent trade.
C8_LatestVolatility ==
    Bound("latest_vol") =>
        LET prices == Column(data, "price")
            n == Len(data)
        IN  /\ Len(rolling_vol) = n
            /\ n < W => AllNaN(rolling_vol) /\ env.latest_vol = Zero
            /\ n >= W =>
                  /\ IsFin(env.latest_vol)
                  /\ env.latest_vol = rolling_vol[n]
                  /\ env.latest_vol = Variance(SubSeq(prices, n - W + 1, n))
                  /\ \A i \in 1..n : IsNaN(rolling_vol[i]) <=> i < W

\* a log of more than W trades whose latest window is not flat
C8_Witness ==
    /\ Bound("latest_vol")
    /\ Len(data) > W
    /\ Gt(env.latest_vol, Zero)

\* C9: sell_total and buy_notional are never negative, and both are 0 for
\* an empty log.
C9_ExposureNonNegative ==
    Bound("sell_mxn") =>
        /\ Ge(env.sell_mxn, Zero) /\ Ge(env.buy_usd, Zero)
        /\ data = <<>> => env.sell_mxn = Zero /\ env.buy_usd = Zero

\* C10: each alert is shown exactly when its own comparison holds, whatever
\* the other three do, and for a positive target the target alert is shown
\* exactly when the progress ratio is 1.
C10_AlertsIndependent ==
    AlertsShown =>
        /\ "mxn_exposure_limit" \in shown.alerts
              <=> Ge(env.sell_mxn, env.mxn_exposure_limit)
        /\ "usd_exposure_limit" \in shown.alerts
              <=> Ge(env.buy_usd, env.usd_exposure_limit)
        /\ "target_sell_mxn" \in shown.alerts
              <=> Ge(env.sell_mxn, env.target_sell_mxn)
        /\ "target_sell_usd" \in shown.alerts
              <=> Ge(env.buy_usd, env.target_sell_usd)
        /\ Gt(env.target_sell_mxn, Zero) =>
              ("target_sell_mxn" \in shown.alerts <=> env.sell_progress = One)
        /\ Gt(env.target_sell_usd, Zero) =>
              ("target_sell_usd" \in shown.alerts <=> env.buy_progress = One)

\* positive targets, the SELL target met below the MXN limit while the USD
\* limit is breached short of the USD target
C10_Witness ==
    /\ AlertsShown
    /\ PositiveTargets
    /\ shown.alerts = {"target_sell_mxn", "usd_exposure_limit"}

===========================================================================
